---- MODULE Spec2Model ----
(***************************************************************************)
(* BudgetBuddy.py: the batch pipeline of main() -- read the persisted     *)
(* store, read the input files, filter out rows already persisted,        *)
(* categorize, merge each bucket, persist it, compute the budget status.  *)
(*                                                                         *)
(* A row (a Python dict of csv.DictReader / DictWriter) is a record       *)
(*   [Date, Description, Amount, Category].                                *)
(* Description is the sequence of the words of the text (the tokens the   *)
(* regex's \b delimits), each word kept with its letter case.             *)
(* Amount is [neg, mag, form]: sign, magnitude in cents, and what kind of *)
(* Python value holds it: "float" (a float object), "repr" (the text      *)
(* str(float) prints, e.g. "5.5") or "raw" (a text of the input file that *)
(* str(float) would not print, e.g. "3.50" or "10"). Arithmetic on cents  *)
(* is exact; binary rounding of floats is not modelled.                   *)
(* Category is a category name, or Absent when the dict has no such key.  *)
(*                                                                         *)
(* Spec runs main() repeatedly on the same input files under the default  *)
(* config's empty budget (line 275). With no budget categories            *)
(* prompt_for_category (lines 129-168) offers only "Ignore", which        *)
(* changes neither the config nor the store, and save_results_as_image    *)
(* writes only the chart: lines 300-305 leave the modelled state as it is.*)
(* SpecBudget applies calculate_budget_status to arbitrary buckets and    *)
(* budget mappings.                                                        *)
(***************************************************************************)
EXTENDS Integers, Sequences, FiniteSets

VARIABLES
    keyword_mapping,             \* config["keyword_mapping"]: ordered <<[cat, phrases]>>
    budget,                      \* config["budget"]: function category -> limit (cents)
    input,                       \* rows of the .csv files of INPUT_DIRECTORY, in read order
    storeExists,                 \* os.path.exists(PROCESSED_FILE_PATH)
    store,                       \* data rows of transactions.csv, in file order
    pc,                          \* position in main()
    runs,                        \* number of runs of main() started
    existing_transactions,       \* main: rows read from the store at line 285
    transactions,                \* main: the batch after the filter of line 290
    categorized_transactions,    \* main: ordered <<[cat, txs]>> (dict of lists)
    uncategorized_transactions,  \* main: the list returned at line 127, appended to at 190
    idx,                         \* position of the loop of line 294 in the dict's items
    mergeIn,                     \* argument of the last merge_transactions call
    merged_transactions,         \* value returned by the last merge_transactions call
    processed_data,              \* main: that list after process_and_store_transactions
    budget_status                \* calculate_budget_status: <<[category, budget, spent, percentage_used]>>

vars == <<keyword_mapping, budget, input, storeExists, store, pc, runs,
          existing_transactions, transactions, categorized_transactions,
          uncategorized_transactions, idx, mergeIn, merged_transactions,
          processed_data, budget_status>>

\* ---------------------------------------------------------------- bounds
MaxBatch == 3   \* rows in the input directory / rows in a bucket given to the budget step
MaxRuns == 2    \* runs of main() on the same input

\* ---------------------------------------------------------------- helpers
Absent == "<absent>"

Range(s) == {s[i] : i \in 1..Len(s)}

SeqsUpTo(S, n) == UNION {[1..k -> S] : k \in 0..n}

RECURSIVE SumSeq(_)
SumSeq(s) == IF s = <<>> THEN 0 ELSE s[1] + SumSeq(Tail(s))

\* ---------------------------------------------------------------- amounts
\* float(x): a float object of the same value, from a text or a float
float(a) == [neg |-> a.neg, mag |-> a.mag, form |-> "float"]

\* abs(f) of a float: +0.0 for either zero
abs(f) == [neg |-> FALSE, mag |-> f.mag, form |-> "float"]

\* f + g for the non-negative floats the code adds (both are abs(...) values)
fadd(f, g) == [neg |-> FALSE, mag |-> f.mag + g.mag, form |-> "float"]

\* -f of a float: flips the sign bit, also of a zero
fneg(f) == [neg |-> ~f.neg, mag |-> f.mag, form |-> "float"]

\* str(f) of a float: Python's text of it
str(f) == [neg |-> f.neg, mag |-> f.mag, form |-> "repr"]

\* what csv.DictWriter writes for a field: a str as it is, a float as str(float)
csv_field(a) == IF a.form = "float" THEN str(a) ELSE a

\* ---------------------------------------------------------------- text
\* str.lower() on one word
lower_word(w) ==
    CASE w = "Coffee" -> "coffee"
      [] w = "Tea" -> "tea"
      [] w = "Grocery" -> "grocery"
      [] w = "Restaurant" -> "restaurant"
      [] w = "Co" -> "co"
      [] w = "Spam" -> "spam"
      [] OTHER -> w

\* str.lower() on a text
lower(d) == [i \in 1..Len(d) |-> lower_word(d[i])]

\* re.search(r'\b{}\b'.format(value), description, re.IGNORECASE): the phrase's
\* words occur as consecutive whole words of the description, letter case ignored
re_search(value, description) ==
    /\ description # <<>>
    /\ \E k \in 0..(Len(description) - Len(value)) :
          \A j \in 1..Len(value) :
              lower_word(value[j]) = lower_word(description[k + j])

\* ---------------------------------------------------------------- merge
\* lines 78-81 / 90-93: add |current| to the amount of the last merged record.
\* st = [heap, merged, cur]: heap holds the dict objects (the input list's, then
\* the copies made at line 83), merged the heap indices of merged_transactions,
\* cur the index of current_transaction (0 for None)
merge_combine(st) ==
    LET last == st.merged[Len(st.merged)]
        cast_amount == abs(float(st.heap[last].Amount))
        combined_amount == fadd(cast_amount, abs(float(st.heap[st.cur].Amount)))
    IN  [st EXCEPT !.heap[last].Amount = str(combined_amount)]

\* line 76: the record starts a new group
merge_differs(st, t) ==
    \/ st.cur = 0
    \/ st.heap[st.cur].Date # t.Date
    \/ st.heap[st.cur].Description # t.Description

\* lines 76-87: one iteration of the loop, on the input's i-th record
merge_iter(st, i) ==
    LET t == st.heap[i] IN
    IF merge_differs(st, t)
    THEN LET st1 ==
                 IF st.cur # 0 /\ Len(st.merged) > 0
                 THEN merge_combine(st)
                 ELSE IF st.cur # 0
                 THEN LET c == st.heap[st.cur] IN
                      [st EXCEPT !.heap = Append(@, [Date |-> c.Date,
                                                     Description |-> c.Description,
                                                     Amount |-> abs(float(c.Amount)),
                                                     Category |-> c.Category]),
                                 !.merged = Append(@, Len(st.heap) + 1)]
                 ELSE st
         IN  [st1 EXCEPT !.cur = i]
    ELSE [st EXCEPT !.merged = Append(@, i)]

RECURSIVE merge_loop(_, _, _)
merge_loop(st, i, n) ==
    IF i > n THEN st ELSE merge_loop(merge_iter(st, i), i + 1, n)

\* lines 95-96: every merged record's amount becomes str(abs(float(amount)))
RECURSIVE merge_normalize(_, _)
merge_normalize(st, p) ==
    IF p > Len(st.merged) THEN st
    ELSE merge_normalize(
             [st EXCEPT !.heap[st.merged[p]].Amount = str(abs(float(@)))], p + 1)

\* merge_transactions(transactions): rows = the returned list, refs[p] = the
\* position in the input list of the object rows[p] is (0: a new dict), after =
\* the input list's records once the call has returned
merge_transactions(ts) ==
    LET n == Len(ts)
        st0 == [heap |-> ts, merged |-> <<>>, cur |-> 0]
        st1 == merge_loop(st0, 1, n)
        st2 == IF st1.cur # 0 /\ Len(st1.merged) > 0 THEN merge_combine(st1) ELSE st1
        st3 == merge_normalize(st2, 1)
    IN  [rows |-> [p \in 1..Len(st3.merged) |-> st3.heap[st3.merged[p]]],
         refs |-> [p \in 1..Len(st3.merged) |->
                      IF st3.merged[p] <= n THEN st3.merged[p] ELSE 0],
         after |-> SubSeq(st3.heap, 1, n)]

\* ---------------------------------------------------------------- categorize
\* lines 111-115: some phrase of the category matches (the break leaves only the
\* inner loop)
phrase_matches(values, description) ==
    \E j \in 1..Len(values) : re_search(values[j], description)

\* lines 106-115: the loop over keyword_mapping.items(), from the k-th item on,
\* with `category` as assigned so far
RECURSIVE match_keys(_, _, _, _)
match_keys(km, k, description, category) ==
    IF k > Len(km) THEN category
    ELSE match_keys(km, k + 1, description,
                    IF phrase_matches(km[k].phrases, description)
                    THEN km[k].cat ELSE category)

match_category(t, km) == match_keys(km, 1, lower(t.Description), "Uncategorized")

bucket_index(part, c) == CHOOSE k \in 1..Len(part) : part[k].cat = c

\* lines 105-125: one transaction
categorize_one(part, t, km) ==
    LET category == match_category(t, km) IN
    IF category = "Ignore" THEN part
    ELSE LET part1 == IF \E k \in 1..Len(part) : part[k].cat = category
                      THEN part
                      ELSE Append(part, [cat |-> category, txs |-> <<>>])
             k == bucket_index(part1, category)
         IN  [part1 EXCEPT ![k].txs = Append(@, [t EXCEPT !.Category = category])]

RECURSIVE categorize_loop(_, _, _, _)
categorize_loop(part, ts, i, km) ==
    IF i > Len(ts) THEN part
    ELSE categorize_loop(categorize_one(part, ts[i], km), ts, i + 1, km)

\* categorize_transactions(transactions, keyword_mapping): the pair returned at
\* line 127. uncategorized_transactions starts empty (103) and line 125 only
\* filters it
categorize_transactions(ts, km) ==
    [categorized |-> categorize_loop([k \in 1..Len(km) |-> [cat |-> km[k].cat, txs |-> <<>>]],
                                     ts, 1, km),
     uncategorized |-> <<>>]

\* ---------------------------------------------------------------- store
\* initialize_csv without the os.path.exists test of line 32: opens with 'w' always
initialize_csv_always(file) == [exists |-> TRUE, rows |-> <<>>]

\* initialize_csv(file_path): creates the file (header only) when it does not
\* exist, and leaves an existing file alone
initialize_csv(file) ==
    IF ~file.exists THEN [exists |-> TRUE, rows |-> <<>>] ELSE file

\* read_csv(file_path): the file's data rows; [] when the file is missing
read_csv(file) == IF file.exists THEN file.rows ELSE <<>>

\* write_csv(file_path, data): appends the rows (mode 'a'), nothing for no data
write_csv(file, data) ==
    IF Len(data) > 0
    THEN [exists |-> TRUE,
          rows |-> file.rows \o [i \in 1..Len(data) |->
                                    [data[i] EXCEPT !.Amount = csv_field(@)]]]
    ELSE file

\* line 290: [t for t in transactions if t not in existing_transactions]
filter_existing(ts, existing) == SelectSeq(ts, LAMBDA t : t \notin Range(existing))

\* line 183: the condition under which a bucket's record matches
store_matches(trans, date, description) ==
    trans.Date = date /\ lower(trans.Description) = lower(description)

\* lines 179-187: the loop over categorized_transactions.items(), from the k-th
\* item on, with `category` as assigned so far
RECURSIVE store_category(_, _, _, _, _)
store_category(part, k, date, description, category) ==
    IF k > Len(part) THEN category
    ELSE store_category(part, k + 1, date, description,
             IF \E j \in 1..Len(part[k].txs) : store_matches(part[k].txs[j], date, description)
             THEN part[k].cat ELSE category)

\* lines 181-187: the records appended to transactions_to_remove for one
\* transaction, as (bucket, position) pairs: the first match of each bucket
store_removed(part, date, description) ==
    {<<k, j>> \in UNION {{k} \X (1..Len(part[k].txs)) : k \in 1..Len(part)} :
        /\ store_matches(part[k].txs[j], date, description)
        /\ \A i \in 1..(j - 1) : ~store_matches(part[k].txs[i], date, description)}

\* process_and_store_transactions(transactions, processed_file_path,
\* categorized_transactions, uncategorized_transactions), called on the list mr
\* that merge_transactions returned for the b-th bucket; part holds the buckets
\* as that call left them. Gives the file, the buckets (a merged record that is
\* an object of the bucket gets its Category there too), the unmatched list and
\* the list `transactions` as the call leaves them.
process_and_store_transactions(mr, file, part, b, uncategorized) ==
    LET n == Len(mr.rows)
        category == [p \in 1..n |->
                        store_category(part, 1, mr.rows[p].Date, mr.rows[p].Description,
                                       "Uncategorized")]
        final == [p \in 1..n |-> [mr.rows[p] EXCEPT !.Category = category[p]]]
        part1 == [part EXCEPT ![b].txs =
                     [j \in 1..Len(@) |->
                         IF \E p \in 1..n : mr.refs[p] = j
                         THEN final[CHOOSE p \in 1..n : mr.refs[p] = j]
                         ELSE @[j]]]
        processed == [p \in 1..n |->
                         [Date |-> mr.rows[p].Date,
                          Description |-> mr.rows[p].Description,
                          Amount |-> fneg(float(mr.rows[p].Amount)),
                          Category |-> category[p]]]
        to_remove == {part1[kj[1]].txs[kj[2]] :
                         kj \in UNION {store_removed(part, mr.rows[p].Date, mr.rows[p].Description) :
                                          p \in 1..n}}
    IN  [file |-> write_csv(file, processed),
         categorized |-> part1,
         uncategorized |-> uncategorized \o SelectSeq(final, LAMBDA t : t.Category = "Uncategorized"),
         transactions |-> SelectSeq(final, LAMBDA t : t \notin to_remove)]

\* ---------------------------------------------------------------- budget
\* line 202: sum of abs(float(Amount)) over a bucket, in cents
total_spent(txs) == SumSeq([j \in 1..Len(txs) |-> abs(float(txs[j].Amount)).mag])

\* budget.get(category, 0)
budget_get(b, category) == IF category \in DOMAIN b THEN b[category] ELSE 0

\* line 208 with >= for >
has_budget_or_zero(status) == status.budget >= 0

\* line 208: the guard of the division
has_budget(status) == status.budget > 0

\* line 209: (spent / budget) * 100, as the fraction num/den; Python raises
\* ZeroDivisionError for a float divided by 0
percentage(spent, limit) ==
    IF limit = 0 THEN [raised |-> TRUE, num |-> 0, den |-> 1]
    ELSE [raised |-> FALSE, num |-> spent * 100, den |-> limit]

\* lines 202-209: budget_status, in the order of categorized_transactions
calculate_budget_status(part, b) ==
    [k \in 1..Len(part) |->
        LET status == [category |-> part[k].cat,
                       budget |-> budget_get(b, part[k].cat),
                       spent |-> total_spent(part[k].txs),
                       percentage_used |-> [raised |-> FALSE, num |-> 0, den |-> 1]]
        IN  IF has_budget(status)
            THEN [status EXCEPT !.percentage_used = percentage(status.spent, status.budget)]
            ELSE status]

\* ---------------------------------------------------------------- inputs
Amt(neg, mag, form) == [neg |-> neg, mag |-> mag, form |-> form]

Row(date, description, amount, category) ==
    [Date |-> date, Description |-> description, Amount |-> amount, Category |-> category]

\* Rows an input file can hold. The first six are a bank export's (Date,
\* Description, Amount; amounts "3.50", "2.00", "-2.00", "3.50", "10", "1.00");
\* the last two come from a file with a Category column and amounts written the
\* way the store writes them ("-5.5", "-0.0").
InputRows ==
    { Row("2024-01-01", <<"Coffee">>, Amt(FALSE, 350, "raw"), Absent),
      Row("2024-01-01", <<"Coffee">>, Amt(FALSE, 200, "raw"), Absent),
      Row("2024-01-01", <<"coffee">>, Amt(TRUE, 200, "raw"), Absent),
      Row("2024-01-02", <<"Coffee">>, Amt(FALSE, 350, "raw"), Absent),
      Row("2024-01-01", <<"Grocery", "Restaurant", "Co">>, Amt(FALSE, 1000, "raw"), Absent),
      Row("2024-01-01", <<"Spam", "Grocery">>, Amt(FALSE, 100, "raw"), Absent),
      Row("2024-01-01", <<"Tea">>, Amt(TRUE, 550, "repr"), "Uncategorized"),
      Row("2024-01-01", <<"Coffee">>, Amt(TRUE, 0, "repr"), "Uncategorized") }

\* config["keyword_mapping"], in the order of the JSON object's keys
KeywordMappings ==
    { << [cat |-> "Food", phrases |-> <<(<<"grocery">>)>>],
         [cat |-> "Dining", phrases |-> <<(<<"restaurant">>)>>] >>,
      << [cat |-> "Ignore", phrases |-> <<(<<"spam">>)>>],
         [cat |-> "Food", phrases |-> <<(<<"grocery">>)>>] >>,
      << [cat |-> "Food", phrases |-> <<(<<"grocery">>)>>],
         [cat |-> "Ignore", phrases |-> <<(<<"spam">>)>>] >> }

\* config["budget"] of the default config (line 275): no entries
NoBudget == [c \in {} |-> 0]

\* Budget mappings over two categories: each absent, 0 or positive
Budgets == UNION {[S -> {0, 300, 1000}] : S \in SUBSET {"Food", "Uncategorized"}}

\* Buckets handed to calculate_budget_status: amounts "3.50" and "-2.00"
BudgetPartitions ==
    { << [cat |-> "Food", txs |-> f], [cat |-> "Uncategorized", txs |-> u] >> :
        f \in SeqsUpTo({Row("2024-01-01", <<"Grocery">>, Amt(FALSE, 350, "raw"), "Food")},
                       MaxBatch),
        u \in SeqsUpTo({Row("2024-01-01", <<"Coffee">>, Amt(TRUE, 200, "raw"), "Uncategorized"),
                        Row("2024-01-02", <<"Coffee">>, Amt(FALSE, 350, "repr"), "Uncategorized")},
                       MaxBatch) }

\* ---------------------------------------------------------------- main
NoRun ==
    /\ existing_transactions = <<>>
    /\ transactions = <<>>
    /\ categorized_transactions = <<>>
    /\ uncategorized_transactions = <<>>
    /\ idx = 0
    /\ mergeIn = <<>>
    /\ merged_transactions = <<>>
    /\ processed_data = <<>>
    /\ budget_status = <<>>

Init ==
    /\ keyword_mapping \in KeywordMappings
    /\ budget = NoBudget
    /\ input \in SeqsUpTo(InputRows, MaxBatch)
    /\ storeExists = FALSE
    /\ store = <<>>
    /\ pc = "idle"
    /\ runs = 0
    /\ NoRun

\* main, lines 283-290: initialize_csv, read the store, read the input files,
\* drop the rows the store holds
Read ==
    /\ pc = "idle"
    /\ runs < MaxRuns
    /\ LET file == initialize_csv([exists |-> storeExists, rows |-> store]) IN
       /\ storeExists' = file.exists
       /\ store' = file.rows
       /\ existing_transactions' = read_csv(file)
       /\ transactions' = filter_existing(input, read_csv(file))
    /\ runs' = runs + 1
    /\ pc' = "categorize"
    /\ categorized_transactions' = <<>>
    /\ uncategorized_transactions' = <<>>
    /\ idx' = 0
    /\ mergeIn' = <<>>
    /\ merged_transactions' = <<>>
    /\ processed_data' = <<>>
    /\ budget_status' = <<>>
    /\ UNCHANGED <<keyword_mapping, budget, input>>

\* main, line 292
Categorize ==
    /\ pc = "categorize"
    /\ LET r == categorize_transactions(transactions, keyword_mapping) IN
       /\ categorized_transactions' = r.categorized
       /\ uncategorized_transactions' = r.uncategorized
       /\ pc' = IF Len(r.categorized) = 0 THEN "budget" ELSE "loop"
    /\ idx' = 1
    /\ UNCHANGED <<keyword_mapping, budget, input, storeExists, store, runs,
                   existing_transactions, transactions, mergeIn, merged_transactions,
                   processed_data, budget_status>>

\* main, lines 294-297: one iteration of the loop over the buckets
MergeAndStore ==
    /\ pc = "loop"
    /\ LET txs == categorized_transactions[idx].txs IN
       IF Len(txs) > 0
       THEN LET mr == merge_transactions(txs)
                part == [categorized_transactions EXCEPT ![idx].txs = mr.after]
                r == process_and_store_transactions(
                         mr, [exists |-> storeExists, rows |-> store], part, idx,
                         uncategorized_transactions)
            IN  /\ mergeIn' = txs
                /\ merged_transactions' = mr.rows
                /\ processed_data' = r.transactions
                /\ categorized_transactions' = r.categorized
                /\ uncategorized_transactions' = r.uncategorized
                /\ storeExists' = r.file.exists
                /\ store' = r.file.rows
       ELSE /\ mergeIn' = <<>>
            /\ merged_transactions' = <<>>
            /\ processed_data' = <<>>
            /\ UNCHANGED <<categorized_transactions, uncategorized_transactions,
                           storeExists, store>>
    /\ idx' = idx + 1
    /\ pc' = IF idx = Len(categorized_transactions) THEN "budget" ELSE "loop"
    /\ UNCHANGED <<keyword_mapping, budget, input, runs, existing_transactions,
                   transactions, budget_status>>

\* main, line 299; an exception raised there ends the run
Budget ==
    /\ pc = "budget"
    /\ budget_status' = calculate_budget_status(categorized_transactions, budget)
    /\ pc' = IF \E k \in 1..Len(budget_status') : budget_status'[k].percentage_used.raised
             THEN "crashed" ELSE "idle"
    /\ UNCHANGED <<keyword_mapping, budget, input, storeExists, store, runs,
                   existing_transactions, transactions, categorized_transactions,
                   uncategorized_transactions, idx, mergeIn, merged_transactions,
                   processed_data>>

Next == Read \/ Categorize \/ MergeAndStore \/ Budget

Spec == Init /\ [][Next]_vars

\* calculate_budget_status on its own: any buckets, any budget mapping
InitBudget ==
    /\ keyword_mapping = << [cat |-> "Food", phrases |-> <<(<<"grocery">>)>>] >>
    /\ budget \in Budgets
    /\ input = <<>>
    /\ storeExists = TRUE
    /\ store = <<>>
    /\ pc = "budget"
    /\ runs = 1
    /\ existing_transactions = <<>>
    /\ transactions = <<>>
    /\ categorized_transactions \in BudgetPartitions
    /\ uncategorized_transactions = <<>>
    /\ idx = 3
    /\ mergeIn = <<>>
    /\ merged_transactions = <<>>
    /\ processed_data = <<>>
    /\ budget_status = <<>>

NextBudget == Budget

SpecBudget == InitBudget /\ [][NextBudget]_vars

\* ---------------------------------------------------------------- properties
RunDone == pc = "idle" /\ runs >= 1

JustCategorized == pc = "loop" /\ idx = 1

\* the rows the current run has appended to the store
Appended == SubSeq(store, Len(existing_transactions) + 1, Len(store))

SameDateDesc(a, b) == a.Date = b.Date /\ a.Description = b.Description

SameDateDescNoCase(a, b) == a.Date = b.Date /\ lower(a.Description) = lower(b.Description)

\* the category of the first item of the mapping, in declared order, one of
\* whose phrases matches
FirstMatch(t, km) ==
    LET hits == {k \in 1..Len(km) : phrase_matches(km[k].phrases, lower(t.Description))}
    IN  IF hits = {} THEN "Uncategorized"
        ELSE km[CHOOSE k \in hits : \A h \in hits : k <= h].cat

\* some phrase listed under "Ignore" matches the transaction
MatchesIgnore(t, km) ==
    \E k \in 1..Len(km) :
        km[k].cat = "Ignore" /\ phrase_matches(km[k].phrases, lower(t.Description))

Bucket(part, c) ==
    IF \E k \in 1..Len(part) : part[k].cat = c THEN part[bucket_index(part, c)].txs ELSE <<>>

\* s[i..j] is a maximal run of consecutive records of one date and description
MaximalRun(s, i, j) ==
    /\ 1 <= i /\ i <= j /\ j <= Len(s)
    /\ \A m \in i..(j - 1) : SameDateDescNoCase(s[m], s[m + 1])
    /\ i > 1 => ~SameDateDescNoCase(s[i - 1], s[i])
    /\ j < Len(s) => ~SameDateDescNoCase(s[j], s[j + 1])

\* C1: a second run of main on the same input files appends nothing: when the
\* second (or a later) run has ended, the store equals the store that run read
\* at its start.
C1_Idempotent == (RunDone /\ runs >= 2) => store = existing_transactions

\* C2: right after categorize_transactions, every record of every bucket
\* carries the category of the first matching (category, phrase) pair in
\* declared order, and lies in that category's bucket.
C2_FirstCategoryWins ==
    JustCategorized =>
        \A k \in 1..Len(categorized_transactions) :
            \A j \in 1..Len(categorized_transactions[k].txs) :
                LET t == categorized_transactions[k].txs[j] IN
                /\ t.Category = FirstMatch(t, keyword_mapping)
                /\ categorized_transactions[k].cat = FirstMatch(t, keyword_mapping)

\* C3: a read transaction that matches a phrase listed under "Ignore" is in no
\* bucket, not in the unmatched list and not in the store, whatever else matches.
C3_IgnoreExcluded ==
    \A i \in 1..Len(input) :
        MatchesIgnore(input[i], keyword_mapping) =>
            /\ \A k \in 1..Len(categorized_transactions) :
                   \A j \in 1..Len(categorized_transactions[k].txs) :
                       ~SameDateDesc(categorized_transactions[k].txs[j], input[i])
            /\ \A j \in 1..Len(uncategorized_transactions) :
                   ~SameDateDesc(uncategorized_transactions[j], input[i])
            /\ \A j \in 1..Len(store) : ~SameDateDesc(store[j], input[i])

\* C4: merge_transactions replaces a maximal run of two or more consecutive
\* records of one date and description (case ignored) by exactly one record
\* whose amount is the sum of the run's magnitudes. Stated for the runs whose
\* date and description occur nowhere else in the input, where "the record of
\* the run" is the output's only record of that date and description.
C4_MergeSumsRuns ==
    \A i \in 1..Len(mergeIn) : \A j \in (i + 1)..Len(mergeIn) :
        ( /\ MaximalRun(mergeIn, i, j)
          /\ \A m \in 1..Len(mergeIn) : SameDateDescNoCase(mergeIn[m], mergeIn[i]) => m \in i..j )
        => LET out == {p \in 1..Len(merged_transactions) :
                          SameDateDescNoCase(merged_transactions[p], mergeIn[i])}
           IN  /\ Cardinality(out) = 1
               /\ \A p \in out :
                      /\ ~merged_transactions[p].Amount.neg
                      /\ merged_transactions[p].Amount.mag =
                             SumSeq([m \in 1..(j - i + 1) |-> mergeIn[i + m - 1].Amount.mag])

\* C5: when a run has ended, every transaction of its batch that matches no
\* "Ignore" phrase has its date and description on a row the run appended to the
\* store, and every appended row has the date and description of a transaction
\* of the batch.
C5_RoundTrip ==
    RunDone =>
        /\ \A i \in 1..Len(transactions) :
               ~MatchesIgnore(transactions[i], keyword_mapping) =>
                   \E j \in 1..Len(Appended) : SameDateDesc(Appended[j], transactions[i])
        /\ \A j \in 1..Len(Appended) :
               \E i \in 1..Len(transactions) : SameDateDesc(Appended[j], transactions[i])

\* C6: calculate_budget_status never divides by zero; it reports every bucket,
\* with percentage_used = 0 for a category whose budget is 0 or absent, and
\* percentage_used = spent / budget * 100 (unclamped) for a budget > 0.
C6_BudgetZeroSafe ==
    /\ pc # "crashed"
    /\ pc = "idle" =>
        /\ Len(budget_status) = Len(categorized_transactions)
        /\ \A k \in 1..Len(budget_status) :
               LET status == budget_status[k]
                   cat == categorized_transactions[k].cat
                   limit == IF cat \in DOMAIN budget THEN budget[cat] ELSE 0
                   spent == total_spent(categorized_transactions[k].txs)
               IN  /\ status.category = cat
                   /\ status.budget = limit
                   /\ status.spent = spent
                   /\ ~status.percentage_used.raised
                   /\ limit = 0 => status.percentage_used.num = 0
                   /\ limit > 0 =>
                          status.percentage_used.num * limit =
                              spent * 100 * status.percentage_used.den

\* C6 witness: a finished call with money spent in a category that has no
\* budget entry, in one whose budget is 0, and more than 100% used in another
C6_Witness ==
    /\ pc = "idle"
    /\ \E k \in 1..Len(budget_status) :
           /\ budget_status[k].category \notin DOMAIN budget
           /\ budget_status[k].spent > 0
           /\ budget_status[k].percentage_used.num = 0
    /\ \E k \in 1..Len(budget_status) :
           /\ budget_status[k].budget > 0
           /\ budget_status[k].percentage_used.num >
                  100 * budget_status[k].percentage_used.den

\* C6 witness, second case: budget 0 stated in the mapping, money spent
C6_WitnessZero ==
    /\ pc = "idle"
    /\ \E k \in 1..Len(budget_status) :
           /\ budget_status[k].category \in DOMAIN budget
           /\ budget_status[k].budget = 0
           /\ budget_status[k].spent > 0

\* C7: the unmatched list categorize_transactions returns is exactly the
\* "Uncategorized" bucket, in arrival order.
C7_UnmatchedReturned ==
    JustCategorized =>
        uncategorized_transactions = Bucket(categorized_transactions, "Uncategorized")

\* C8: every step keeps the store's rows as a prefix of the store, and an
\* existing store file stays in existence: the store only grows by appending.
C8_AppendOnly ==
    [][ /\ storeExists => storeExists'
        /\ Len(store) <= Len(store')
        /\ SubSeq(store', 1, Len(store)) = store ]_vars

\* C8 witness: a second or later run has appended rows to a store that held
\* rows when the run began
C8_Witness ==
    /\ RunDone
    /\ runs >= 2
    /\ Len(existing_transactions) > 0
    /\ Len(store) > Len(existing_transactions)
    /\ SubSeq(store, 1, Len(existing_transactions)) = existing_transactions

\* C9: a record of merge_transactions' input with no adjacent record of the
\* same date and description is a record of the output, with its date, its
\* description and the magnitude of its amount.
C9_SingletonPassThrough ==
    \A i \in 1..Len(mergeIn) :
        MaximalRun(mergeIn, i, i) =>
            \E p \in 1..Len(merged_transactions) :
                /\ SameDateDesc(merged_transactions[p], mergeIn[i])
                /\ ~merged_transactions[p].Amount.neg
                /\ merged_transactions[p].Amount.mag = mergeIn[i].Amount.mag

\* C10: when a run has ended, the spent value reported for a category is the
\* sum of the magnitudes of the input amounts of the batch's transactions
\* classified into it.
C10_SpentUndistorted ==
    RunDone =>
        \A k \in 1..Len(budget_status) :
            budget_status[k].spent =
                SumSeq([i \in 1..Len(transactions) |->
                           IF match_category(transactions[i], keyword_mapping) =
                                  budget_status[k].category
                           THEN transactions[i].Amount.mag ELSE 0])

====
